---- MODULE Spec2Model ----
(***************************************************************************)
(* Model of the winnow-based JSON parser in json.rs.                       *)
(*                                                                         *)
(* An input text is a sequence of one-character strings.  A cursor is the  *)
(* 1-based index of the next unread character (Len(s)+1 at end of input).  *)
(* Every parser is an operator from (text, cursor) to a record             *)
(*     [ok |-> BOOLEAN, pos |-> cursor left behind, val |-> output]        *)
(* where pos is the cursor the parser leaves in `input: &mut &str`, also   *)
(* when it fails (winnow parsers do not rewind on failure by themselves;   *)
(* only opt, alt and separated restore a checkpoint).                      *)
(*                                                                         *)
(* f64 values are represented as exact decimals m * 10^e in normal form    *)
(* (m has no trailing zero, 0 is <<0,0>>); binary rounding is not          *)
(* represented.  i64 digit runs stay far below the i64 range within the    *)
(* bounds used here.                                                       *)
(***************************************************************************)
EXTENDS Integers, Sequences, FiniteSets, TLC

VARIABLES input, v, pc, result

vars == <<input, v, pc, result>>

(***************************************************************************)
(* Bounds                                                                  *)
(***************************************************************************)
MaxNumLen == 5
MaxTok == 4
MaxAltTok == 3
MaxElems == 2

(***************************************************************************)
(* Values: enum Num and enum JsonValue                                     *)
(***************************************************************************)
NumInt(n) == [k |-> "Int", m |-> n, e |-> 0]

RECURSIVE Norm(_, _)
Norm(m, e) == IF m = 0 THEN <<0, 0>>
              ELSE IF m % 10 = 0 THEN Norm(m \div 10, e + 1)
              ELSE <<m, e>>

NumFloat(m, e) == [k |-> "Float", m |-> Norm(m, e)[1], e |-> Norm(m, e)[2]]

JsonNull == [t |-> "Null"]
JsonBool(b) == [t |-> "Bool", b |-> b]
JsonNumber(n) == [t |-> "Number", n |-> n]
JsonString(str) == [t |-> "String", s |-> str]
JsonArray(a) == [t |-> "Array", a |-> a]
JsonObject(o) == [t |-> "Object", o |-> o]

NoValue == [t |-> "None"]

(***************************************************************************)
(* Parser results                                                          *)
(***************************************************************************)
POk(p, x) == [ok |-> TRUE, pos |-> p, val |-> x]
PErr(p) == [ok |-> FALSE, pos |-> p, val |-> NoValue]

(***************************************************************************)
(* Leaf parsers of winnow                                                  *)
(***************************************************************************)
Digits == {"0", "1", "2", "3", "4", "5", "6", "7", "8", "9"}

DigitVal(c) == CASE c = "0" -> 0 [] c = "1" -> 1 [] c = "2" -> 2
                 [] c = "3" -> 3 [] c = "4" -> 4 [] c = "5" -> 5
                 [] c = "6" -> 6 [] c = "7" -> 7 [] c = "8" -> 8
                 [] c = "9" -> 9

Multispace == {" ", "\t", "\r", "\n"}

At(s, pos) == IF pos >= 1 /\ pos <= Len(s) THEN s[pos] ELSE "EOF"

RECURSIVE Pow10(_)
Pow10(n) == IF n <= 0 THEN 1 ELSE 10 * Pow10(n - 1)

\* multispace0: skip zero or more whitespace characters, never fails
RECURSIVE multispace0(_, _)
multispace0(s, pos) == IF At(s, pos) \in Multispace THEN multispace0(s, pos + 1)
                       ELSE pos

\* a literal tag: consumes it when the text at the cursor matches, else
\* fails without moving the cursor
literal(s, pos, tag) ==
    IF /\ pos + Len(tag) - 1 <= Len(s)
       /\ \A i \in 1..Len(tag) : s[pos + i - 1] = tag[i]
    THEN POk(pos + Len(tag), tag)
    ELSE PErr(pos)

\* end of the run of digits starting at pos
RECURSIVE DigitRunEnd(_, _)
DigitRunEnd(s, pos) == IF At(s, pos) \in Digits THEN DigitRunEnd(s, pos + 1)
                       ELSE pos

\* str::parse::<i64> of the digit run s[from..to-1]
RECURSIVE ParseToI64(_, _, _)
ParseToI64(s, from, to) ==
    IF to <= from THEN 0
    ELSE 10 * ParseToI64(s, from, to - 1) + DigitVal(s[to - 1])

\* digit0.parse_to::<i64>(): accepts an empty run (not what the code uses)
digit0_parse_to(s, pos) ==
    LET end == DigitRunEnd(s, pos)
    IN POk(end, ParseToI64(s, pos, end))

\* digit1.parse_to::<i64>(): one or more digits, parsed as an integer
digit1_parse_to(s, pos) ==
    LET end == DigitRunEnd(s, pos)
    IN IF end = pos THEN PErr(pos)
       ELSE POk(end, ParseToI64(s, pos, end))

\* opt("-").map(|s| s.is_some())
opt_minus(s, pos) ==
    LET r == literal(s, pos, <<"-">>)
    IN IF r.ok THEN POk(r.pos, TRUE) ELSE POk(pos, FALSE)

\* i64::to_string().len()
RECURSIVE to_string_len(_)
to_string_len(n) == IF n < 10 THEN 1 ELSE 1 + to_string_len(n \div 10)

(***************************************************************************)
(* parse_null, parse_bool, parse_num, parse_string                         *)
(***************************************************************************)
parse_null(s, pos) ==
    LET r == literal(s, pos, <<"n", "u", "l", "l">>)
    IN IF r.ok THEN POk(r.pos, JsonNull) ELSE PErr(r.pos)

parse_bool(s, pos) ==
    LET rt == literal(s, pos, <<"t", "r", "u", "e">>)
        rf == literal(s, pos, <<"f", "a", "l", "s", "e">>)
    IN IF rt.ok THEN POk(rt.pos, TRUE)
       ELSE IF rf.ok THEN POk(rf.pos, FALSE)
       ELSE PErr(pos)

\* "e".value(()).parse_next(input).or_else(|_| "E".value(()).parse_next(input))
exp_marker(s, pos) ==
    LET r == literal(s, pos, <<"e">>)
    IN IF r.ok THEN r ELSE literal(s, pos, <<"E">>)

parse_num(s, pos) ==
    LET sign == opt_minus(s, pos)
        num == digit1_parse_to(s, sign.pos)
    IN IF ~num.ok THEN PErr(num.pos)
       ELSE
       LET dot == literal(s, num.pos, <<".">>)
           frac == digit1_parse_to(s, dot.pos)
       IN IF dot.ok /\ ~frac.ok THEN PErr(frac.pos)
          ELSE
          LET frac_length == IF dot.ok THEN to_string_len(frac.val) ELSE 0
              \* v = num + frac / 10^frac_length, as mant * 10^(-frac_length)
              mant == IF dot.ok THEN num.val * Pow10(frac_length) + frac.val
                      ELSE num.val
              p1 == IF dot.ok THEN frac.pos ELSE num.pos
              mark == exp_marker(s, p1)
              exp_sign == opt_minus(s, mark.pos)
              exp_value == digit1_parse_to(s, exp_sign.pos)
          IN IF mark.ok /\ ~exp_value.ok THEN PErr(exp_value.pos)
             ELSE
             LET exponent == IF ~mark.ok THEN 0
                             ELSE IF exp_sign.val THEN -exp_value.val
                             ELSE exp_value.val
                 p2 == IF mark.ok THEN exp_value.pos ELSE p1
             IN POk(p2, NumFloat(IF sign.val THEN -mant ELSE mant,
                                 exponent - frac_length))

\* delimited('"', take_until(0.., '"'), '"')
RECURSIVE take_until_quote(_, _)
take_until_quote(s, pos) ==
    IF pos > Len(s) THEN 0
    ELSE IF s[pos] = "\"" THEN pos
    ELSE take_until_quote(s, pos + 1)

\* a string parser that accepts a missing closing quote (not what the code does)
parse_string_unterminated(s, pos) ==
    LET open == literal(s, pos, <<"\"">>)
        close == take_until_quote(s, open.pos)
    IN IF ~open.ok THEN PErr(pos)
       ELSE IF close = 0 THEN POk(Len(s) + 1, SubSeq(s, open.pos, Len(s)))
       ELSE POk(close + 1, SubSeq(s, open.pos, close - 1))

parse_string(s, pos) ==
    LET open == literal(s, pos, <<"\"">>)
        close == take_until_quote(s, open.pos)
    IN IF ~open.ok THEN PErr(pos)
       ELSE IF close = 0 THEN PErr(open.pos)
       ELSE POk(close + 1, SubSeq(s, open.pos, close - 1))

(***************************************************************************)
(* sep_with_space                                                          *)
(***************************************************************************)
sep_with_space(s, pos, c) ==
    LET p == multispace0(s, pos)
        r == literal(s, p, <<c>>)
    IN IF ~r.ok THEN PErr(p)
       ELSE POk(multispace0(s, r.pos), c)

(***************************************************************************)
(* Checkpoints of the combinators                                          *)
(***************************************************************************)
\* alt that lets the next alternative start where the failed one stopped
alt_no_reset(start, failed) == failed.pos

\* alt: input.reset(&start) before the next alternative is tried
alt_reset(start, failed) == start

\* separated that keeps the cursor of the failed separator or element
separated_no_reset(start, failed, acc) == POk(failed.pos, acc)

\* separated: a failed separator, or a failed element after a separator,
\* ends the list with the cursor restored to before that separator
separated_reset(start, failed, acc) == POk(start, acc)

\* separated(0.., ..) applied to the pairs: no pair is an empty map
separated1_none_as_empty(start, first) == POk(start, <<>>)

\* separated(1.., ..): the failure of the first element is the failure of
\* the list
separated1_none(start, first) == PErr(first.pos)

\* HashMap::insert
Insert(o, key, x) ==
    [kk \in (DOMAIN o) \cup {key} |-> IF kk = key THEN x ELSE o[kk]]

(***************************************************************************)
(* parse_array, parse_object, parse_value                                  *)
(*                                                                         *)
(* Each step of a combinator chain is an operator that receives the result *)
(* of the step before it: an Err result is returned as it is (the `?`),    *)
(* an Ok result lets the chain go on from the cursor it left.              *)
(***************************************************************************)
RECURSIVE parse_value(_, _), parse_array(_, _), parse_object(_, _)
RECURSIVE array_values(_, _), array_rest(_, _, _)
RECURSIVE parse_kv_pair(_, _), object_kv(_, _), object_rest(_, _, _)
RECURSIVE alt_from(_, _, _, _)

\* separated(0.., parse_value, sep_comma): after an element attempt that
\* followed the separator sep
array_next(s, pos, acc, el) ==
    IF ~el.ok THEN separated_reset(pos, el, acc)
    ELSE array_rest(s, el.pos, Append(acc, el.val))

\* separated(0.., parse_value, sep_comma): after a separator attempt
array_after_comma(s, pos, acc, sep) ==
    IF ~sep.ok THEN separated_reset(pos, sep, acc)
    ELSE array_next(s, pos, acc, parse_value(s, sep.pos))

\* the loop of separated(0.., parse_value, sep_comma)
array_rest(s, pos, acc) ==
    array_after_comma(s, pos, acc, sep_with_space(s, pos, ","))

\* separated(0.., parse_value, sep_comma): after the first element attempt
array_first(s, pos, first) ==
    IF ~first.ok THEN POk(pos, <<>>)
    ELSE array_rest(s, first.pos, <<first.val>>)

\* separated(0.., parse_value, sep_comma)
array_values(s, pos) == array_first(s, pos, parse_value(s, pos))

\* delimited(sep1, .., sep2): after sep2
delimited_close(inner, sep2) ==
    IF ~sep2.ok THEN PErr(sep2.pos)
    ELSE POk(sep2.pos, inner.val)

\* delimited(sep1, .., sep2): after the inner parser
delimited_inner(s, inner, close) ==
    IF ~inner.ok THEN PErr(inner.pos)
    ELSE delimited_close(inner, sep_with_space(s, inner.pos, close))

\* delimited(sep1, parse_values, sep2): after sep1
array_open(s, sep1) ==
    IF ~sep1.ok THEN PErr(sep1.pos)
    ELSE delimited_inner(s, array_values(s, sep1.pos), "]")

parse_array(s, pos) == array_open(s, sep_with_space(s, pos, "["))

\* separated_pair(parse_string, sep_colon, parse_value): after the value
kv_value(key, value) ==
    IF ~value.ok THEN PErr(value.pos)
    ELSE POk(value.pos, <<key.val, value.val>>)

\* separated_pair(parse_string, sep_colon, parse_value): after the colon
kv_colon(s, key, colon) ==
    IF ~colon.ok THEN PErr(colon.pos)
    ELSE kv_value(key, parse_value(s, colon.pos))

\* separated_pair(parse_string, sep_colon, parse_value): after the key
kv_key(s, key) ==
    IF ~key.ok THEN PErr(key.pos)
    ELSE kv_colon(s, key, sep_with_space(s, key.pos, ":"))

\* separated_pair(parse_string, sep_colon, parse_value)
parse_kv_pair(s, pos) == kv_key(s, parse_string(s, pos))

\* separated(1.., parse_kv_pair, sep_comma): after a pair attempt that
\* followed the separator
object_next(s, pos, acc, kv) ==
    IF ~kv.ok THEN separated_reset(pos, kv, acc)
    ELSE object_rest(s, kv.pos, Insert(acc, kv.val[1], kv.val[2]))

\* separated(1.., parse_kv_pair, sep_comma): after a separator attempt
object_after_comma(s, pos, acc, sep) ==
    IF ~sep.ok THEN separated_reset(pos, sep, acc)
    ELSE object_next(s, pos, acc, parse_kv_pair(s, sep.pos))

\* the loop of separated(1.., parse_kv_pair, sep_comma)
object_rest(s, pos, acc) ==
    object_after_comma(s, pos, acc, sep_with_space(s, pos, ","))

\* separated(1.., parse_kv_pair, sep_comma): after the first pair attempt
object_first(s, pos, first) ==
    IF ~first.ok THEN separated1_none(pos, first)
    ELSE object_rest(s, first.pos, Insert(<<>>, first.val[1], first.val[2]))

\* separated(1.., parse_kv_pair, sep_comma)
object_kv(s, pos) == object_first(s, pos, parse_kv_pair(s, pos))

\* delimited(sep1, parse_kv, sep2): after sep1
object_open(s, sep1) ==
    IF ~sep1.ok THEN PErr(sep1.pos)
    ELSE delimited_inner(s, object_kv(s, sep1.pos), "}")

parse_object(s, pos) == object_open(s, sep_with_space(s, pos, "{"))

\* the six alternatives of parse_value, in the order of the alt tuple
Alternatives == <<"Null", "Bool", "Number", "String", "Array", "Object">>

\* .value(JsonValue::Null) and .map(JsonValue::X) on the output of a parser
map_value(i, r) ==
    IF ~r.ok THEN r
    ELSE POk(r.pos, CASE i = 1 -> JsonNull
                      [] i = 2 -> JsonBool(r.val)
                      [] i = 3 -> JsonNumber(r.val)
                      [] i = 4 -> JsonString(r.val)
                      [] i = 5 -> JsonArray(r.val)
                      [] i = 6 -> JsonObject(r.val))

\* alternative i of parse_value applied at cursor pos
parse_alternative(i, s, pos) ==
    map_value(i, CASE i = 1 -> parse_null(s, pos)
                   [] i = 2 -> parse_bool(s, pos)
                   [] i = 3 -> parse_num(s, pos)
                   [] i = 4 -> parse_string(s, pos)
                   [] i = 5 -> parse_array(s, pos)
                   [] i = 6 -> parse_object(s, pos))

\* alt((..)): after alternative i was tried
alt_step(i, s, start, r) ==
    IF r.ok THEN r
    ELSE IF i = Len(Alternatives) THEN PErr(r.pos)
    ELSE alt_from(i + 1, s, start, alt_reset(start, r))

\* alt((..)): alternative i is tried at cursor cur after i-1 failures
alt_from(i, s, start, cur) == alt_step(i, s, start, parse_alternative(i, s, cur))

parse_value(s, pos) == alt_from(1, s, pos, pos)

(***************************************************************************)
(* parse_json                                                              *)
(***************************************************************************)
\* an entry point that rejects unread trailing text (not what the code does)
parse_json_all_consumed(s) ==
    LET r == parse_value(s, 1)
    IN IF r.ok /\ r.pos = Len(s) + 1 THEN r ELSE PErr(r.pos)

parse_json(s) == parse_value(s, 1)

(***************************************************************************)
(* Inputs                                                                  *)
(***************************************************************************)
\* number literals and their malformed neighbours: all texts over NumChars
NumChars == {"-", "+", ".", "e", "E", "0", "1", "5"}

NumInputs == UNION {[1..n -> NumChars] : n \in 0..MaxNumLen}

\* JSON texts: all concatenations of at most MaxTok fragments
Fragments == {<<"[">>, <<"]">>, <<"{">>, <<"}">>, <<",">>, <<" ">>,
              <<"1">>, <<"1", ",">>,
              <<"\"">>, <<"\"", "a", "\"">>, <<"\"", "a", "\"", ":">>,
              <<"n", "u", "l", "l">>, <<"t", "r", "u">>}

\* the same with the fragments that make a number fail after it has started
AltFragments == Fragments \cup {<<"-">>, <<"e">>}

RECURSIVE Flatten(_)
Flatten(ts) == IF ts = <<>> THEN <<>> ELSE Head(ts) \o Flatten(Tail(ts))

JsonInputs == {Flatten(ts) : ts \in UNION {[1..n -> Fragments] : n \in 0..MaxTok}}

AltInputs == {Flatten(ts) : ts \in UNION {[1..n -> AltFragments] : n \in 0..MaxAltTok}}

NoResult == [ok |-> FALSE, pos |-> 0, val |-> NoValue]

(***************************************************************************)
(* Calls                                                                   *)
(***************************************************************************)
CallParseNum ==
    /\ pc = "start"
    /\ result' = parse_num(input, 1)
    /\ pc' = "parse_num"
    /\ UNCHANGED <<input, v>>

CallParseArray ==
    /\ pc = "start"
    /\ result' = parse_array(input, 1)
    /\ pc' = "parse_array"
    /\ UNCHANGED <<input, v>>

CallParseObject ==
    /\ pc = "start"
    /\ result' = parse_object(input, 1)
    /\ pc' = "parse_object"
    /\ UNCHANGED <<input, v>>

CallParseJson ==
    /\ pc = "start"
    /\ result' = parse_json(input)
    /\ pc' = "parse_json"
    /\ UNCHANGED <<input, v>>

InitNum ==
    /\ input \in NumInputs
    /\ v = NoValue
    /\ pc = "start"
    /\ result = NoResult

NextNum == CallParseNum \/ CallParseJson

SpecNum == InitNum /\ [][NextNum]_vars

InitJson ==
    /\ input \in JsonInputs
    /\ v = NoValue
    /\ pc = "start"
    /\ result = NoResult

NextJson == CallParseJson \/ CallParseArray \/ CallParseObject

SpecJson == InitJson /\ [][NextJson]_vars

InitAlt ==
    /\ input \in AltInputs
    /\ v = NoValue
    /\ pc = "start"
    /\ result = NoResult

NextAlt == CallParseJson

SpecAlt == InitAlt /\ [][NextAlt]_vars

(***************************************************************************)
(* The shape of the number literal at the start of input, read off the     *)
(* text by the grammar                                                     *)
(*   '-'? DIGIT+ ('.' DIGIT+)? (('e'|'E') ('-'|'+')? DIGIT+)?              *)
(***************************************************************************)
Negative == At(input, 1) = "-"
IntStart == IF Negative THEN 2 ELSE 1
IntEnd == DigitRunEnd(input, IntStart)
MissingInt == IntEnd = IntStart
HasDot == ~MissingInt /\ At(input, IntEnd) = "."
FracStart == IntEnd + 1
FracEnd == DigitRunEnd(input, FracStart)
MissingFrac == HasDot /\ FracEnd = FracStart
MantEnd == IF HasDot THEN FracEnd ELSE IntEnd
HasExp == ~MissingInt /\ ~MissingFrac /\ At(input, MantEnd) \in {"e", "E"}
ExpSign == At(input, MantEnd + 1)
ExpStart == IF ExpSign \in {"-", "+"} THEN MantEnd + 2 ELSE MantEnd + 1
ExpEnd == DigitRunEnd(input, ExpStart)
MissingExp == HasExp /\ ExpEnd = ExpStart
LiteralEnd == IF HasExp THEN ExpEnd ELSE MantEnd
IntPart == ParseToI64(input, IntStart, IntEnd)
FracPart == ParseToI64(input, FracStart, FracEnd)
FracDigits == FracEnd - FracStart
ExpPart == IF ~HasExp THEN 0
           ELSE IF ExpSign = "-" THEN -ParseToI64(input, ExpStart, ExpEnd)
           ELSE ParseToI64(input, ExpStart, ExpEnd)
Signed(n) == IF Negative THEN -n ELSE n
WholeLiteral == /\ ~MissingInt /\ ~MissingFrac /\ ~MissingExp
                /\ LiteralEnd = Len(input) + 1

\* the literal with the '+' after the exponent marker left out
WithoutPlus == SubSeq(input, 1, MantEnd) \o SubSeq(input, MantEnd + 2, Len(input))

\* C2: parse_num accepts an explicit '+' after the exponent marker: a literal
\* mantissa ('e'|'E') '+' digits parses, is consumed whole and has the value
\* of the same literal written without the '+'.
C2_PlusExponentAccepted ==
    (pc = "parse_num" /\ WholeLiteral /\ HasExp /\ ExpSign = "+")
        => /\ result.ok
           /\ result.pos = Len(input) + 1
           /\ result.val = parse_num(WithoutPlus, 1).val

\* C3: for a literal with a fractional part, parse_num adds frac / 10^L to
\* the integer part, L being the number of digits of the fraction as written
\* (leading zeros counted).
C3_FractionScaledByTextLength ==
    (pc = "parse_num" /\ WholeLiteral /\ HasDot /\ ExpSign # "+")
        => /\ result.ok
           /\ result.val = NumFloat(Signed(IntPart * Pow10(FracDigits) + FracPart),
                                    ExpPart - FracDigits)

\* C4: a literal made only of an optional '-' and digits gives the integer
\* variant Num::Int holding that signed integer.
C4_IntegerLiteralGivesInt ==
    (pc = "parse_num" /\ WholeLiteral /\ ~HasDot /\ ~HasExp)
        => /\ result.ok
           /\ result.val = NumInt(Signed(IntPart))

\* C7: when the digits required after a leading '-', after '.', or after the
\* exponent marker and its optional sign are missing, parse_num and parse_json
\* fail; the value of the shorter valid prefix is never returned.
C7_MissingDigitsFail ==
    (pc \in {"parse_num", "parse_json"} /\ (MissingInt \/ MissingFrac \/ MissingExp))
        => ~result.ok

C7_Witness ==
    /\ pc = "parse_json"
    /\ input = <<"1", "e", "-">>
    /\ MissingExp
    /\ ~result.ok

(***************************************************************************)
(* Structural claims                                                       *)
(***************************************************************************)
Chars(s) == {s[i] : i \in 1..Len(s)}

\* input is open, whitespace only, close, and then anything
EmptyBrackets(open, close) ==
    /\ At(input, 1) = open
    /\ At(input, multispace0(input, 2)) = close

\* C5: parse_array on "[]" (any whitespace between the brackets) succeeds
\* with an empty sequence, parse_object and parse_json on "{}" (any
\* whitespace between the braces) fail, and an object that parses has at
\* least one key-value pair.
C5_EmptyArrayYesEmptyObjectNo ==
    /\ (pc = "parse_array" /\ EmptyBrackets("[", "]"))
          => (result.ok /\ result.val = <<>>)
    /\ (pc \in {"parse_object", "parse_json"} /\ EmptyBrackets("{", "}"))
          => ~result.ok
    /\ (pc = "parse_object" /\ result.ok) => DOMAIN result.val # {}
    /\ (pc = "parse_json" /\ result.ok /\ result.val.t = "Object")
          => DOMAIN result.val.o # {}

C5_Witness ==
    /\ pc = "parse_object"
    /\ input = <<"{", " ", "}">>
    /\ ~result.ok
    /\ parse_array(<<"[", " ", "]">>, 1).ok

\* input is an array text that parses when closed before position i, where
\* a ',' stands, followed by optional whitespace and ']'
TrailingCommaAt(i) ==
    /\ At(input, i) = ","
    /\ At(input, multispace0(input, i + 1)) = "]"
    /\ LET closed == SubSeq(input, 1, i - 1) \o <<"]">>
           r == parse_array(closed, 1)
       IN r.ok /\ r.pos = Len(closed) + 1 /\ r.val # <<>>

\* C6: an array text whose last element is followed by ',' (with any
\* whitespace around it) and then directly by ']' is rejected by parse_array
\* (and so by parse_json); the elements read so far are not returned.
C6_TrailingCommaRejected ==
    (pc \in {"parse_array", "parse_json"} /\ \E i \in 1..Len(input) : TrailingCommaAt(i))
        => ~result.ok

C6_Witness ==
    /\ pc = "parse_array"
    /\ input = <<"[", "1", ",", "]">>
    /\ TrailingCommaAt(3)
    /\ ~result.ok

\* some element attempt of the list starting at pos (the first one, or one
\* after a comma) fails
RECURSIVE ElementFailure(_, _)
ElementFailure(s, pos) ==
    LET r == parse_value(s, pos)
        sep == sep_with_space(s, r.pos, ",")
    IN IF ~r.ok THEN TRUE
       ELSE sep.ok /\ ElementFailure(s, sep.pos)

\* some key-value attempt of the list starting at pos fails
RECURSIVE PairFailure(_, _)
PairFailure(s, pos) ==
    LET r == parse_kv_pair(s, pos)
        sep == sep_with_space(s, r.pos, ",")
    IN IF ~r.ok THEN TRUE
       ELSE sep.ok /\ PairFailure(s, sep.pos)

FirstChar == At(input, multispace0(input, 1))

Unclosed ==
    \/ FirstChar = "[" /\ "]" \notin Chars(input)
    \/ FirstChar = "{" /\ "}" \notin Chars(input)
    \/ At(input, 1) = "\"" /\ "\"" \notin Chars(Tail(input))
    \/ At(input, 1) = "n" /\ ~literal(input, 1, <<"n", "u", "l", "l">>).ok
    \/ At(input, 1) = "t" /\ ~literal(input, 1, <<"t", "r", "u", "e">>).ok
    \/ At(input, 1) = "f" /\ ~literal(input, 1, <<"f", "a", "l", "s", "e">>).ok

NestedFailure ==
    \/ /\ At(input, 1) = "["
       /\ At(input, multispace0(input, 2)) # "]"
       /\ ElementFailure(input, multispace0(input, 2))
    \/ /\ At(input, 1) = "{"
       /\ PairFailure(input, multispace0(input, 2))

\* C8: parse_json returns an error, never a partial or default value, for an
\* input that opens an array or object and never closes it, for a truncated
\* literal, for a string without closing quote, and whenever the attempt at a
\* nested element or key-value pair fails.
C8_MalformedInputFails ==
    (pc = "parse_json" /\ (Unclosed \/ NestedFailure))
        => (~result.ok /\ result.val = NoValue)

C8_Witness ==
    /\ pc = "parse_json"
    /\ input = <<"[", "1", ",", "1", ",">>
    /\ Unclosed
    /\ NestedFailure
    /\ ~result.ok

\* C9: parse_json returns the value that parses at position 0 whatever text
\* is left unread after it, and fails exactly when no value parses there.
C9_TrailingTextIgnored ==
    pc = "parse_json"
        => LET r == parse_value(input, 1)
           IN /\ result.ok <=> r.ok
              /\ r.ok => (result.val = r.val /\ result.pos = r.pos)

C9_Witness ==
    /\ pc = "parse_json"
    /\ result.ok
    /\ result.pos <= Len(input)
    /\ input = <<"[", "]", "t", "r", "u">>

Succeeding(s, pos) == {i \in 1..Len(Alternatives) : parse_alternative(i, s, pos).ok}

\* C10: at every cursor position at most one of the six alternatives of
\* parse_value succeeds, and parse_value gives exactly the outcome of that
\* alternative tried from that position (an error when there is none), also
\* when an earlier alternative failed after consuming characters.
C10_AlternativesFromSameCursor ==
    pc = "parse_json"
        => /\ \A p \in 1..(Len(input) + 1) :
                /\ Cardinality(Succeeding(input, p)) <= 1
                /\ \A i \in Succeeding(input, p) :
                       parse_value(input, p) = parse_alternative(i, input, p)
                /\ Succeeding(input, p) = {} => ~parse_value(input, p).ok
           /\ \A i \in Succeeding(input, 1) : result = parse_alternative(i, input, 1)
           /\ Succeeding(input, 1) = {} => ~result.ok

C10_Witness ==
    /\ pc = "parse_json"
    /\ input = <<"-", "\"", "a", "\"">>
    /\ ~parse_alternative(3, input, 1).ok
    /\ parse_alternative(3, input, 1).pos > 1
    /\ parse_alternative(4, input, 2).ok
    /\ ~result.ok

(***************************************************************************)
(* Round trip through a canonical printer                                  *)
(***************************************************************************)
Atoms == {JsonNull, JsonBool(TRUE), JsonBool(FALSE),
          JsonNumber(NumInt(0)), JsonNumber(NumInt(12)), JsonNumber(NumInt(-5)),
          JsonNumber(NumFloat(15, -1)), JsonNumber(NumFloat(-5, -2)),
          JsonString(<<>>), JsonString(<<"a">>)}

Keys == {<<"a">>, <<"b">>}

ArraysOf(S) == {JsonArray(a) : a \in UNION {[1..n -> S] : n \in 0..MaxElems}}

ObjectsOf(S) == {JsonObject(o) : o \in UNION {[K -> S] : K \in SUBSET Keys}}

Flat == Atoms \cup ArraysOf(Atoms) \cup ObjectsOf(Atoms)

Values == Flat \cup {JsonArray(<<x>>) : x \in Flat}
               \cup {JsonObject([k \in {<<"a">>} |-> x]) : x \in Flat}

DigitChar(d) == CASE d = 0 -> "0" [] d = 1 -> "1" [] d = 2 -> "2"
                  [] d = 3 -> "3" [] d = 4 -> "4" [] d = 5 -> "5"
                  [] d = 6 -> "6" [] d = 7 -> "7" [] d = 8 -> "8"
                  [] d = 9 -> "9"

RECURSIVE RenderNat(_)
RenderNat(n) == IF n < 10 THEN <<DigitChar(n)>>
                ELSE Append(RenderNat(n \div 10), DigitChar(n % 10))

\* the k low decimal digits of n, leading zeros kept
RECURSIVE RenderPadded(_, _)
RenderPadded(n, k) == IF k = 0 THEN <<>>
                      ELSE Append(RenderPadded(n \div 10, k - 1), DigitChar(n % 10))

Abs(n) == IF n < 0 THEN -n ELSE n

RenderNum(n) ==
    LET sgn == IF n.m < 0 THEN <<"-">> ELSE <<>>
    IN IF n.k = "Int" THEN sgn \o RenderNat(Abs(n.m))
       ELSE IF n.e >= 0
            THEN sgn \o RenderNat(Abs(n.m) * Pow10(n.e)) \o <<".", "0">>
       ELSE sgn \o RenderNat(Abs(n.m) \div Pow10(-n.e)) \o <<".">>
                \o RenderPadded(Abs(n.m) % Pow10(-n.e), -n.e)

RECURSIVE Render(_), RenderElems(_), RenderPairs(_, _)
RenderElems(a) ==
    IF a = <<>> THEN <<>>
    ELSE IF Len(a) = 1 THEN Render(a[1])
    ELSE Render(a[1]) \o <<",">> \o RenderElems(Tail(a))

RenderPairs(o, K) ==
    IF K = {} THEN <<>>
    ELSE LET key == CHOOSE kk \in K : TRUE
             pair == <<"\"">> \o key \o <<"\"", ":">> \o Render(o[key])
         IN IF K = {key} THEN pair
            ELSE pair \o <<",">> \o RenderPairs(o, K \ {key})

Render(x) ==
    CASE x.t = "Null" -> <<"n", "u", "l", "l">>
      [] x.t = "Bool" -> IF x.b THEN <<"t", "r", "u", "e">>
                         ELSE <<"f", "a", "l", "s", "e">>
      [] x.t = "Number" -> RenderNum(x.n)
      [] x.t = "String" -> <<"\"">> \o x.s \o <<"\"">>
      [] x.t = "Array" -> <<"[">> \o RenderElems(x.a) \o <<"]">>
      [] x.t = "Object" -> <<"{">> \o RenderPairs(x.o, DOMAIN x.o) \o <<"}">>

\* the value with every number in the floating-point variant
RECURSIVE Normalized(_)
Normalized(x) ==
    CASE x.t = "Number" -> JsonNumber(NumFloat(x.n.m, x.n.e))
      [] x.t = "Array" -> JsonArray([i \in DOMAIN x.a |-> Normalized(x.a[i])])
      [] x.t = "Object" -> JsonObject([kk \in DOMAIN x.o |-> Normalized(x.o[kk])])
      [] OTHER -> x

PrintValue ==
    /\ pc = "value"
    /\ input' = Render(v)
    /\ pc' = "start"
    /\ UNCHANGED <<v, result>>

InitRound ==
    /\ v \in Values
    /\ input = <<>>
    /\ pc = "value"
    /\ result = NoResult

NextRound == PrintValue \/ CallParseJson

SpecRound == InitRound /\ [][NextRound]_vars

\* C1: parse_json of the canonical text of a JSON value v (empty arrays,
\* empty objects and nesting included) is a value structurally equal to v
\* with every number in the floating-point variant.
C1_RoundTrip ==
    (pc = "parse_json" /\ v # NoValue)
        => (result.ok /\ result.val = Normalized(v))

====
